---- MODULE Spec2Model ----
(***************************************************************************)
(* A model of wg_exporter/metrics.py: the parser of `wg show` output, its  *)
(* two quantity converters, the exposition formatter and the collector.    *)
(*                                                                         *)
(* Python strings are TLA+ strings, read one character at a time with      *)
(* SubSeq; the regular expressions of lines 10-15 and 41 are matched       *)
(* character by character.  Python integers are unbounded, so they are     *)
(* kept as sequences of base-1024 limbs (PyInt); a Python float is an IEEE *)
(* double, kept as a 53-bit mantissa and a binary exponent.                *)
(***************************************************************************)
EXTENDS Integers, Sequences, FiniteSets, TLC

VARIABLES
    overrides,  \* the module-level dict `overrides` (line 17)
    clock,      \* what datetime.now() returns
    op,         \* the function the single caller applied last
    arg,        \* its argument
    ret,        \* its outcome: a returned value or a raised exception
    child,      \* the `sudo wg show` process of run_command
    cpc,        \* where collect_metrics is
    cwg_output, \* the local wg_output of collect_metrics
    cout,       \* the outcome of collect_metrics
    callers     \* the concurrent callers of override / parse_wg_output

vars == <<overrides, clock, op, arg, ret, child, cpc, cwg_output, cout, callers>>

-----------------------------------------------------------------------------
(* Characters and strings                                                  *)

\* s[i-1] of Python, and "" outside the string
Ch(s, i) == IF 1 <= i /\ i <= Len(s) THEN SubSeq(s, i, i) ELSE ""

DigitSeq == <<"0", "1", "2", "3", "4", "5", "6", "7", "8", "9">>

DigitChars == {DigitSeq[i] : i \in 1..10}

DigitVal(c) == (CHOOSE i \in 1..10 : DigitSeq[i] = c) - 1

LetterChars ==
    {"a", "b", "c", "d", "e", "f", "g", "h", "i", "j", "k", "l", "m",
     "n", "o", "p", "q", "r", "s", "t", "u", "v", "w", "x", "y", "z",
     "A", "B", "C", "D", "E", "F", "G", "H", "I", "J", "K", "L", "M",
     "N", "O", "P", "Q", "R", "S", "T", "U", "V", "W", "X", "Y", "Z"}

\* \w of the re module, on ASCII text
WordChars == LetterChars \cup DigitChars \cup {"_"}

\* \s of the re module, on ASCII text
SpaceChars == {" ", "\t", "\n", "\r", "\f"}

\* [\d.]
NumChars == DigitChars \cup {"."}

\* [\w+/=]
PeerChars == WordChars \cup {"+", "/", "="}

Min(S) == CHOOSE m \in S : \A n \in S : m <= n

Max(S) == CHOOSE m \in S : \A n \in S : m >= n

\* s[i:] starts with lit
StartsAt(s, i, lit) ==
    /\ 1 <= i
    /\ i + Len(lit) - 1 <= Len(s)
    /\ SubSeq(s, i, i + Len(lit) - 1) = lit

\* Python's `lit in s`
Contains(s, lit) == \E i \in 1..(Len(s) - Len(lit) + 1) : StartsAt(s, i, lit)

\* the index after the longest run of characters of Class that starts at i
Span(s, i, Class) ==
    IF i > Len(s) THEN i
    ELSE Min({k \in i..(Len(s) + 1) : Ch(s, k) \notin Class})

-----------------------------------------------------------------------------
(* Python integers: little-endian limbs in base 1024, no leading zero limb *)

Base == 1024

RECURSIVE BigNorm(_)
BigNorm(x) ==
    IF x # <<>> /\ x[Len(x)] = 0 THEN BigNorm(SubSeq(x, 1, Len(x) - 1)) ELSE x

RECURSIVE BigOfInt(_)
BigOfInt(n) == IF n = 0 THEN <<>> ELSE <<n % Base>> \o BigOfInt(n \div Base)

RECURSIVE BigToInt(_)
BigToInt(x) == IF x = <<>> THEN 0 ELSE x[1] + Base * BigToInt(Tail(x))

RECURSIVE MulCarry(_, _, _, _)
MulCarry(x, i, c, carry) ==
    IF i > Len(x) THEN BigOfInt(carry)
    ELSE LET t == x[i] * c + carry
         IN  <<t % Base>> \o MulCarry(x, i + 1, c, t \div Base)

\* x * c for a machine-sized c
BigMulSmall(x, c) == BigNorm(MulCarry(x, 1, c, 0))

\* x * c + a
BigMulAdd(x, c, a) == BigNorm(MulCarry(x, 1, c, a))

RECURSIVE DivRem(_, _, _)
DivRem(x, i, d) ==
    IF i > Len(x) THEN [q |-> <<>>, r |-> 0]
    ELSE LET hi  == DivRem(x, i + 1, d)
             cur == hi.r * Base + x[i]
         IN  [q |-> <<cur \div d>> \o hi.q, r |-> cur % d]

\* divmod(x, d) for a machine-sized d
BigDivSmall(x, d) == LET qr == DivRem(x, 1, d) IN [q |-> BigNorm(qr.q), r |-> qr.r]

\* x * 1024^k
BigShiftLimbs(x, k) == IF x = <<>> THEN <<>> ELSE [i \in 1..k |-> 0] \o x

\* x * 2^b
BigShl(x, b) == BigShiftLimbs(BigMulSmall(x, 2 ^ (b % 10)), b \div 10)

\* x \div 2^b
BigShr(x, b) ==
    IF b \div 10 >= Len(x) THEN <<>>
    ELSE BigDivSmall(SubSeq(x, (b \div 10) + 1, Len(x)), 2 ^ (b % 10)).q

RECURSIVE BitLen(_)
BitLen(n) == IF n = 0 THEN 0 ELSE 1 + BitLen(n \div 2)

BigBitLen(x) == IF x = <<>> THEN 0 ELSE 10 * (Len(x) - 1) + BitLen(x[Len(x)])

\* -1, 0, 1 as a < b, a = b, a > b
BigCmp(a, b) ==
    IF Len(a) # Len(b) THEN (IF Len(a) < Len(b) THEN -1 ELSE 1)
    ELSE LET diff == {i \in 1..Len(a) : a[i] # b[i]}
         IN  IF diff = {} THEN 0
             ELSE IF a[Max(diff)] < b[Max(diff)] THEN -1 ELSE 1

RECURSIVE AddCarry(_, _, _, _)
AddCarry(a, b, i, carry) ==
    IF i > Len(a) /\ i > Len(b) THEN BigOfInt(carry)
    ELSE LET t == (IF i <= Len(a) THEN a[i] ELSE 0)
                  + (IF i <= Len(b) THEN b[i] ELSE 0) + carry
         IN  <<t % Base>> \o AddCarry(a, b, i + 1, t \div Base)

BigAdd(a, b) == BigNorm(AddCarry(a, b, 1, 0))

BigIsOdd(x) == x # <<>> /\ x[1] % 2 = 1

\* int(s) for a string of decimal digits
RECURSIVE IntOfDigits(_, _, _)
IntOfDigits(s, i, acc) ==
    IF i > Len(s) THEN acc
    ELSE IntOfDigits(s, i + 1, BigMulAdd(acc, 10, DigitVal(Ch(s, i))))

PyIntOfStr(s) == IntOfDigits(s, 1, <<>>)

\* str(x)
RECURSIVE DecimalDigits(_)
DecimalDigits(x) ==
    IF x = <<>> THEN ""
    ELSE LET qr == BigDivSmall(x, 10)
         IN  DecimalDigits(qr.q) \o DigitSeq[qr.r + 1]

PyStr(x) == IF x = <<>> THEN "0" ELSE DecimalDigits(x)

-----------------------------------------------------------------------------
(* Outcomes of a call and Optional values                                  *)

Return(v) == [kind |-> "return", val |-> v]

Raise(e) == [kind |-> "raise", exc |-> e]

\* Optional[T]: None is the empty tuple, a value v is <<v>>
None == <<>>

Some(v) == <<v>>

-----------------------------------------------------------------------------
(* The regular expressions of lines 10-15 and 41: for each, the groups of  *)
(* the match that starts at position i of s, or None                       *)


\* interface:\s*(\w+)
interface_match(s, i) ==
    LET j == Span(s, i + Len("interface:"), SpaceChars)
        k == Span(s, j, WordChars)
    IN  IF StartsAt(s, i, "interface:") /\ k > j THEN <<SubSeq(s, j, k - 1)>>
        ELSE None

\* peer:\s*([\w+/=]+)
peer_match(s, i) ==
    LET j == Span(s, i + Len("peer:"), SpaceChars)
        k == Span(s, j, PeerChars)
    IN  IF StartsAt(s, i, "peer:") /\ k > j THEN <<SubSeq(s, j, k - 1)>>
        ELSE None

\* endpoint:\s*([\d.]+:\d+)
endpoint_match(s, i) ==
    LET j == Span(s, i + Len("endpoint:"), SpaceChars)
        a == Span(s, j, NumChars)
        b == Span(s, a + 1, DigitChars)
    IN  IF StartsAt(s, i, "endpoint:") /\ a > j /\ Ch(s, a) = ":" /\ b > a + 1
        THEN <<SubSeq(s, j, b - 1)>>
        ELSE None

\* latest handshake:\s*(.+ ago): \s* is greedy and gives back what .+ needs,
\* .+ is greedy and stops at the last " ago"; . is any character but "\n"
handshake_match(s, i) ==
    LET p0 == i + Len("latest handshake:")
        Agos(q) == {j \in (q + 1)..(Len(s) - 3) :
                       /\ StartsAt(s, j, " ago")
                       /\ \A t \in q..(j - 1) : Ch(s, t) # "\n"}
        qs == {q \in p0..Span(s, p0, SpaceChars) : Agos(q) # {}}
    IN  IF StartsAt(s, i, "latest handshake:") /\ qs # {}
        THEN <<SubSeq(s, Max(qs), Max(Agos(Max(qs))) + 3)>>
        ELSE None

\* transfer:\s*([\d.]+ \w+) received, ([\d.]+ \w+) sent
transfer_match(s, i) ==
    LET j == Span(s, i + Len("transfer:"), SpaceChars)
        a == Span(s, j, NumChars)
        b == Span(s, a + 1, WordChars)
        c == b + Len(" received, ")
        d == Span(s, c, NumChars)
        e == Span(s, d + 1, WordChars)
    IN  IF /\ StartsAt(s, i, "transfer:")
           /\ a > j /\ Ch(s, a) = " " /\ b > a + 1
           /\ StartsAt(s, b, " received, ")
           /\ d > c /\ Ch(s, d) = " " /\ e > d + 1
           /\ StartsAt(s, e, " sent")
        THEN <<SubSeq(s, j, b - 1), SubSeq(s, c, e - 1)>>
        ELSE None

\* ([\d.]+) (\w+)
byte_reading_match(s, i) ==
    LET k == Span(s, i, NumChars)
        w == Span(s, k + 1, WordChars)
    IN  IF k > i /\ Ch(s, k) = " " /\ w > k + 1
        THEN <<SubSeq(s, i, k - 1), SubSeq(s, k + 1, w - 1)>>
        ELSE None

\* (\d+)\s+{unit}
unit_match(unit, s, i) ==
    LET k == Span(s, i, DigitChars)
        w == Span(s, k, SpaceChars)
    IN  IF k > i /\ w > k /\ StartsAt(s, w, unit)
        THEN <<SubSeq(s, i, k - 1)>>
        ELSE None

\* the compiled patterns, as values
interface_pattern == [re |-> "interface", unit |-> ""]

peer_pattern == [re |-> "peer", unit |-> ""]

endpoint_pattern == [re |-> "endpoint", unit |-> ""]

handshake_pattern == [re |-> "handshake", unit |-> ""]

transfer_pattern == [re |-> "transfer", unit |-> ""]

byte_reading_pattern == [re |-> "byte_reading", unit |-> ""]

\* rf'(\d+)\s+{unit}'
unit_pattern(unit) == [re |-> "unit", unit |-> unit]

\* the groups of the match of `pattern` that starts at i, or None
MatchAt(pattern, s, i) ==
    CASE pattern.re = "interface"    -> interface_match(s, i)
      [] pattern.re = "peer"         -> peer_match(s, i)
      [] pattern.re = "endpoint"     -> endpoint_match(s, i)
      [] pattern.re = "handshake"    -> handshake_match(s, i)
      [] pattern.re = "transfer"     -> transfer_match(s, i)
      [] pattern.re = "byte_reading" -> byte_reading_match(s, i)
      [] pattern.re = "unit"         -> unit_match(pattern.unit, s, i)

\* the match that starts at the least of `hits`
LeftmostMatch(pattern, s, hits) ==
    IF hits = {} THEN None ELSE MatchAt(pattern, s, Min(hits))

\* re.search(pattern, s): the groups of the leftmost match, or None
re_search(pattern, s) ==
    LeftmostMatch(pattern, s, {i \in 1..Len(s) : MatchAt(pattern, s, i) # None})

-----------------------------------------------------------------------------
(* float(): an IEEE double m * 2^(-e), m of at most 53 bits (54 only as    *)
(* 2^53 after rounding up), correctly rounded, ties to even                *)

\* the e >= e0 at which floor(n * 2^e / d) first has 53 bits
RECURSIVE ScaleExp(_, _, _)
ScaleExp(n, d, e) ==
    IF BigBitLen(BigDivSmall(BigShl(n, e), d).q) >= 53 THEN e
    ELSE ScaleExp(n, d, e + 1)

\* m + 1 when `up`, as an IEEE double m * 2^(-e)
Rounded(m, e, up) == [m |-> IF up THEN BigAdd(m, <<1>>) ELSE m, e |-> e]

\* q0 = divmod(n, d) has more than 53 bits: the s low bits of the quotient are
\* rounded away, to nearest and on a tie to even
RoundBits(q0, s, m0) ==
    Rounded(m0, -s,
            \/ BigCmp(BigMulSmall(q0.q, 2), BigShl(BigMulAdd(m0, 2, 1), s)) = 1
            \/ /\ BigCmp(BigMulSmall(q0.q, 2), BigShl(BigMulAdd(m0, 2, 1), s)) = 0
               /\ (q0.r > 0 \/ BigIsOdd(m0)))

\* qr = divmod(n * 2^e, d) has 53 bits: the remainder is rounded away
RoundRem(qr, d, e) ==
    Rounded(qr.q, e, 2 * qr.r > d \/ (2 * qr.r = d /\ BigIsOdd(qr.q)))

ScaledQuot(n, d, e) == RoundRem(BigDivSmall(BigShl(n, e), d), d, e)

FloatOfQuot(n, d, q0, bl) ==
    IF bl >= 54 THEN RoundBits(q0, bl - 53, BigShr(q0.q, bl - 53))
    ELSE ScaledQuot(n, d, ScaleExp(n, d, 53 - bl))

\* the double nearest to n / d
FloatOfRatio(n, d) ==
    IF n = <<>> THEN [m |-> <<>>, e |-> 0]
    ELSE FloatOfQuot(n, d, BigDivSmall(n, d), BigBitLen(BigDivSmall(n, d).q))

\* float(s) accepts a string of [\d.]+ when it holds a digit and at most one dot
FloatValid(s) ==
    /\ Cardinality({i \in 1..Len(s) : Ch(s, i) = "."}) <= 1
    /\ \E i \in 1..Len(s) : Ch(s, i) \in DigitChars

\* the digits of s, the dot left out
RECURSIVE DigitsOnly(_, _)
DigitsOnly(s, i) ==
    IF i > Len(s) THEN ""
    ELSE (IF Ch(s, i) = "." THEN "" ELSE Ch(s, i)) \o DigitsOnly(s, i + 1)

\* how many digits follow the dot
FracDigits(s) ==
    LET dots == {i \in 1..Len(s) : Ch(s, i) = "."}
    IN  IF dots = {} THEN 0 ELSE Len(s) - Min(dots)

\* float(s) of a valid s
PyFloat(s) == FloatOfRatio(PyIntOfStr(DigitsOnly(s, 1)), 10 ^ FracDigits(s))

\* f * 1024^k for k in 0..5: exact, the product of a double and a power of two
FloatMulPow1024(f, k) == [m |-> f.m, e |-> f.e - 10 * k]

\* int(f): truncation
PyIntOfFloat(f) == IF f.e <= 0 THEN BigShl(f.m, -f.e) ELSE BigShr(f.m, f.e)

-----------------------------------------------------------------------------
(* parse_to_bytes                                                          *)

UnitSymbols == <<"B", "KiB", "MiB", "GiB", "TiB", "PiB">>

\* the power k of multiplier.get(indicator, 1) = 1024^k
multiplier(indicator) ==
    IF \E k \in 1..Len(UnitSymbols) : UnitSymbols[k] = indicator
    THEN (CHOOSE k \in 1..Len(UnitSymbols) : UnitSymbols[k] = indicator) - 1
    ELSE 0

\* lines 52-62, match the groups of the match of line 50
bytes_of_match(byte_size, indicator) ==
    IF ~FloatValid(byte_size) THEN Raise("ValueError")
    ELSE Return(Some(PyIntOfFloat(
             FloatMulPow1024(PyFloat(byte_size), multiplier(indicator)))))

match_bytes(match) ==
    IF match = None THEN Return(None) ELSE bytes_of_match(match[1], match[2])

parse_to_bytes(byte_reading) ==
    match_bytes(re_search(byte_reading_pattern, byte_reading))

-----------------------------------------------------------------------------
(* datetime and timedelta: a naive datetime is its proleptic Gregorian     *)
(* ordinal (0001-01-01 is 1), its second of the day and its microsecond    *)

IsLeap(y) == y % 4 = 0 /\ (y % 100 # 0 \/ y % 400 = 0)

DaysInMonth(y, m) ==
    IF m = 2 THEN (IF IsLeap(y) THEN 29 ELSE 28)
    ELSE IF m \in {4, 6, 9, 11} THEN 30 ELSE 31

RECURSIVE DaysBeforeMonth(_, _)
DaysBeforeMonth(y, m) ==
    IF m = 1 THEN 0 ELSE DaysBeforeMonth(y, m - 1) + DaysInMonth(y, m - 1)

DaysBeforeYear(y) ==
    LET p == y - 1 IN p * 365 + p \div 4 - p \div 100 + p \div 400

\* datetime(y, m, d, hh, mm, ss, us)
DateTime(y, m, d, hh, mm, ss, us) ==
    [ord |-> DaysBeforeYear(y) + DaysBeforeMonth(y, m) + d,
     sod |-> hh * 3600 + mm * 60 + ss,
     us  |-> us]

\* the year, month and day of an ordinal
Ord2Ymd(ord) ==
    LET n0   == ord - 1
        n400 == n0 \div 146097
        n1r  == n0 % 146097
        n100 == n1r \div 36524
        n2r  == n1r % 36524
        n4   == n2r \div 1461
        n3r  == n2r % 1461
        n1   == n3r \div 365
        n    == n3r % 365
        year == n400 * 400 + n100 * 100 + n4 * 4 + n1 + 1
    IN  IF n1 = 4 \/ n100 = 4 THEN [y |-> year - 1, m |-> 12, d |-> 31]
        ELSE LET month == Min({m \in 1..12 :
                               DaysBeforeMonth(year, m) + DaysInMonth(year, m) > n})
             IN  [y |-> year, m |-> month, d |-> n - DaysBeforeMonth(year, month) + 1]

\* n in decimal, zero-padded to w digits
RECURSIVE Pad(_, _)
Pad(n, w) == IF w = 0 THEN "" ELSE Pad(n \div 10, w - 1) \o DigitSeq[(n % 10) + 1]

\* datetime.isoformat()
isoformat(dt) ==
    LET ymd == Ord2Ymd(dt.ord)
    IN  Pad(ymd.y, 4) \o "-" \o Pad(ymd.m, 2) \o "-" \o Pad(ymd.d, 2) \o "T"
        \o Pad(dt.sod \div 3600, 2) \o ":" \o Pad((dt.sod % 3600) \div 60, 2)
        \o ":" \o Pad(dt.sod % 60, 2)
        \o (IF dt.us = 0 THEN "" ELSE "." \o Pad(dt.us, 6))

SecondsPerDay == 86400

MaxDeltaDays == 999999999

\* current_time - timedelta(days=days, seconds=seconds): OverflowError when
\* the date is out of range
MinusDelta(current_time, days, seconds, borrow) ==
    IF current_time.ord - days - borrow < 1 THEN Raise("OverflowError")
    ELSE Return([ord |-> current_time.ord - days - borrow,
                 sod |-> current_time.sod - seconds + borrow * SecondsPerDay,
                 us  |-> current_time.us])

\* qr = divmod(seconds_ago, 86400): OverflowError when the timedelta is out of
\* range
MinusDivided(current_time, qr) ==
    IF BigCmp(qr.q, BigOfInt(MaxDeltaDays)) = 1 THEN Raise("OverflowError")
    ELSE MinusDelta(current_time, BigToInt(qr.q), qr.r,
                    IF qr.r > current_time.sod THEN 1 ELSE 0)

\* current_time - timedelta(seconds=seconds_ago), seconds_ago a PyInt >= 0
MinusSeconds(current_time, seconds_ago) ==
    MinusDivided(current_time, BigDivSmall(seconds_ago, SecondsPerDay))

-----------------------------------------------------------------------------
(* override and parse_handshake_time                                       *)

RefKey == "override_current_time"

NoOverrides == [k \in {} |-> 0]

\* overrides[key] = value
DictSet(d, key, value) ==
    [k \in DOMAIN d \cup {key} |-> IF k = key THEN value ELSE d[k]]

\* line 45 without the override: always the clock
current_time_now(ovr, now) == now

\* overrides.get("override_current_time", datetime.now())
current_time_of(ovr, now) == IF RefKey \in DOMAIN ovr THEN ovr[RefKey] ELSE now

time_units == <<[unit |-> "day",    seconds |-> 3600 * 24],
                [unit |-> "hour",   seconds |-> 3600],
                [unit |-> "minute", seconds |-> 60],
                [unit |-> "second", seconds |-> 1]>>

\* lines 42-43: seconds_ago += int(match.group(1)) * seconds
add_unit(match, seconds, seconds_ago) ==
    IF match = None THEN seconds_ago
    ELSE BigAdd(BigMulSmall(PyIntOfStr(match[1]), seconds), seconds_ago)

\* the loop of lines 39-43, from unit j on
RECURSIVE seconds_ago_of(_, _)
seconds_ago_of(handshake, j) ==
    IF j > Len(time_units) THEN <<>>
    ELSE add_unit(re_search(unit_pattern(time_units[j].unit), handshake),
                  time_units[j].seconds,
                  seconds_ago_of(handshake, j + 1))

\* line 47 on the outcome of line 46
isoformat_of(target_time) ==
    IF target_time.kind = "raise" THEN target_time
    ELSE Return(isoformat(target_time.val))

\* lines 33-47 with the reference time read at line 45 given
handshake_time_at(handshake, current_time) ==
    isoformat_of(MinusSeconds(current_time, seconds_ago_of(handshake, 1)))

parse_handshake_time(handshake) ==
    handshake_time_at(handshake, current_time_of(overrides, clock))

-----------------------------------------------------------------------------
(* str.splitlines, split_lines_by_key, find_first                          *)

LineBreaks == {"\n", "\r", "\f"}

\* where a line of s ends: a line break that is not the "\n" of a "\r\n"
BreakAt(s, i) ==
    /\ Ch(s, i) \in LineBreaks
    /\ ~(Ch(s, i) = "\n" /\ Ch(s, i - 1) = "\r")

\* the lines of s from `start` on
RECURSIVE SplitFrom(_, _)
SplitFrom(s, start) ==
    LET ends == {i \in start..Len(s) : BreakAt(s, i)}
    IN  IF start > Len(s) THEN <<>>
        ELSE IF ends = {} THEN <<SubSeq(s, start, Len(s))>>
        ELSE LET i    == Min(ends)
                 next == IF Ch(s, i) = "\r" /\ Ch(s, i + 1) = "\n" THEN i + 2 ELSE i + 1
             IN  <<SubSeq(s, start, i - 1)>> \o SplitFrom(s, next)

splitlines(s) == SplitFrom(s, 1)

\* [index for index, line in enumerate(lines) if split_key in line], from i on
RECURSIVE IndexesFrom(_, _, _)
IndexesFrom(split_key, lines, i) ==
    IF i > Len(lines) THEN <<>>
    ELSE (IF Contains(lines[i], split_key) THEN <<i>> ELSE <<>>)
         \o IndexesFrom(split_key, lines, i + 1)

\* split_lines_by_key without the `+ [None]` of line 108: zip stops one group early
split_lines_by_key_short(split_key, lines) ==
    LET indexes == IndexesFrom(split_key, lines, 1)
    IN  [g \in 1..(Len(indexes) - 1) |->
            SubSeq(lines, indexes[g], indexes[g + 1] - 1)]

\* lines[start:end] for (start, end) in zip(indexes, indexes[1:] + [None])
split_lines_by_key(split_key, lines) ==
    LET indexes == IndexesFrom(split_key, lines, 1)
    IN  [g \in 1..Len(indexes) |->
            SubSeq(lines, indexes[g],
                   IF g < Len(indexes) THEN indexes[g + 1] - 1 ELSE Len(lines))]

\* find_first_multiple_groups returning the last match instead of the first
find_last_multiple_groups(pattern, lines) ==
    LET hits == {j \in 1..Len(lines) : re_search(pattern, lines[j]) # None}
    IN  IF hits = {} THEN None ELSE re_search(pattern, lines[Max(hits)])

\* the groups of the first line that the pattern matches, or None
find_first_multiple_groups(pattern, lines) ==
    LET hits == {j \in 1..Len(lines) : re_search(pattern, lines[j]) # None}
    IN  IF hits = {} THEN None ELSE re_search(pattern, lines[Min(hits)])

\* group 1 of the first line that the pattern matches, or None
find_first(pattern, lines) ==
    LET groups == find_first_multiple_groups(pattern, lines)
    IN  IF groups = None THEN None ELSE Some(groups[1])

-----------------------------------------------------------------------------
(* parse_wg_output                                                         *)

\* r or 0, r the outcome of parse_to_bytes
or_0(r) ==
    IF r.kind = "raise" THEN r
    ELSE Return(IF r.val = None THEN <<>> ELSE r.val[1])

\* lines 80-87: the dict literal, its values evaluated in order; the first
\* exception is the one raised
metric_of(interface_name, peer, endpoint, hs, rx, tx) ==
    IF hs.kind = "raise" THEN hs
    ELSE IF rx.kind = "raise" THEN rx
    ELSE IF tx.kind = "raise" THEN tx
    ELSE Return(<<[interface |-> interface_name,
                   peer      |-> peer,
                   endpoint  |-> endpoint,
                   handshake |-> hs.val,
                   rx_bytes  |-> rx.val,
                   tx_bytes  |-> tx.val]>>)

\* lines 79-87, the four fields of lines 75-78 given
fields_metrics(interface_name, peer, endpoint, handshake, transfer, current_time) ==
    IF peer = None \/ endpoint = None \/ handshake = None \/ transfer = None
    THEN Return(<<>>)
    ELSE metric_of(interface_name, peer[1], endpoint[1],
                   handshake_time_at(handshake[1], current_time),
                   or_0(parse_to_bytes(transfer[1])),
                   or_0(parse_to_bytes(transfer[2])))

\* lines 75-87: the records (none or one) a peer block adds to metrics, the
\* reference time read at line 45 given
peer_metrics(interface_name, peer_lines, current_time) ==
    fields_metrics(interface_name,
                   find_first(peer_pattern, peer_lines),
                   find_first(endpoint_pattern, peer_lines),
                   find_first(handshake_pattern, peer_lines),
                   find_first_multiple_groups(transfer_pattern, peer_lines),
                   current_time)

\* metrics after `one` was appended and then `rest`, or the first exception
Chain(one, rest) ==
    IF one.kind = "raise" THEN one
    ELSE IF rest.kind = "raise" THEN rest
    ELSE Return(one.val \o rest.val)

\* lines 68-74: the peer blocks the two loops visit, in order, each with the
\* name of its interface block; an interface block without a name is skipped
RECURSIVE peer_blocks_from(_, _)
peer_blocks_from(interfaces_lines, g) ==
    IF g > Len(interfaces_lines) THEN <<>>
    ELSE LET interface_lines == interfaces_lines[g]
             interface_name  == find_first(interface_pattern, interface_lines)
             peers_lines     == split_lines_by_key("peer:", interface_lines)
             mine == IF interface_name = None THEN <<>>
                     ELSE [j \in 1..Len(peers_lines) |->
                              [interface_name |-> interface_name[1],
                               peer_lines     |-> peers_lines[j]]]
         IN  mine \o peer_blocks_from(interfaces_lines, g + 1)

peer_blocks(wg_output) ==
    peer_blocks_from(split_lines_by_key("interface:", splitlines(wg_output)), 1)

\* metrics after the peer blocks from j on, or the first exception raised
RECURSIVE metrics_from(_, _, _)
metrics_from(blocks, j, current_time) ==
    IF j > Len(blocks) THEN Return(<<>>)
    ELSE Chain(peer_metrics(blocks[j].interface_name, blocks[j].peer_lines,
                            current_time),
               metrics_from(blocks, j + 1, current_time))

\* parse_wg_output with the reference time given
metrics_at(wg_output, current_time) ==
    metrics_from(peer_blocks(wg_output), 1, current_time)

parse_wg_output(wg_output) ==
    metrics_at(wg_output, current_time_of(overrides, clock))

-----------------------------------------------------------------------------
(* format_metrics                                                          *)

Labels2(metric) ==
    "{interface=\"" \o metric.interface \o "\",peer=\"" \o metric.peer \o "\"}"

info_line(metric) ==
    "wg_peer_info{interface=\"" \o metric.interface \o "\",peer=\"" \o metric.peer
    \o "\",endpoint=\"" \o metric.endpoint \o "\",last_handshake=\""
    \o metric.handshake \o "\"} 1"

rx_line(metric) == "wg_peer_rx_bytes" \o Labels2(metric) \o " " \o PyStr(metric.rx_bytes)

tx_line(metric) == "wg_peer_tx_bytes" \o Labels2(metric) \o " " \o PyStr(metric.tx_bytes)

\* the appends of lines 116-121 in the other order
metric_lines_swapped(metric) == <<info_line(metric), tx_line(metric), rx_line(metric)>>

\* the three appends of lines 113-121
metric_lines(metric) == <<info_line(metric), rx_line(metric), tx_line(metric)>>

RECURSIVE formatted_metrics(_, _)
formatted_metrics(metrics, i) ==
    IF i > Len(metrics) THEN <<>>
    ELSE metric_lines(metrics[i]) \o formatted_metrics(metrics, i + 1)

\* sep.join(lines)
RECURSIVE Join(_, _)
Join(sep, lines) ==
    IF lines = <<>> THEN ""
    ELSE IF Len(lines) = 1 THEN lines[1]
    ELSE lines[1] \o sep \o Join(sep, Tail(lines))

format_metrics(metrics) == Join("\n", formatted_metrics(metrics, 1))

-----------------------------------------------------------------------------
(* The inputs of the single caller                                         *)

SeqsUpTo(S, n) == UNION {[1..k -> S] : k \in 0..n}

\* the strings of exactly n characters of Alphabet
RECURSIVE StrsOfLen(_, _)
StrsOfLen(Alphabet, n) ==
    IF n = 0 THEN {""}
    ELSE {s \o c : s \in StrsOfLen(Alphabet, n - 1), c \in Alphabet}

MaxSplitLen == 4

SplitKeys == {"interface:", "peer:"}

SplitLines ==
    {"interface: wg0", "peer: A", "  endpoint: 1.2.3.4:5", "peer: B interface: wg1"}

MaxNumLen == 3

NumAlphabet == {"0", "2", "5", "."}

\* the magnitudes: every string of 1..MaxNumLen characters of NumAlphabet, and
\* the ones the documentation names
Magnitudes ==
    UNION {StrsOfLen(NumAlphabet, n) : n \in 1..MaxNumLen}
    \cup {"10", "1.5", "4", "1.2.3", "0.54", "512.21", "1023.99"}

Indicators == {UnitSymbols[k] : k \in 1..Len(UnitSymbols)} \cup {"XiB", "b"}

ByteReadings ==
    {m \o " " \o u : m \in Magnitudes, u \in Indicators}
    \cup {"", "5", "MiB 5", "abc 7 KiB", "5  B"}

\* "<N> <unit>s", or nothing for N = 0
Part(n, unit) ==
    IF n = 0 THEN <<>>
    ELSE <<ToString(n) \o " " \o unit \o (IF n = 1 THEN "" ELSE "s")>>

DayCounts == {0, 1, 2, 800000}

HourCounts == {0, 3, 25}

MinuteCounts == {0, 5, 61}

SecondCounts == {0, 30, 86400}

\* the phrases `wg show` prints, and some it does not
Phrases ==
    {Join(", ", Part(d, "day") \o Part(h, "hour") \o Part(m, "minute")
                \o Part(sc, "second")) \o " ago" :
        d \in DayCounts, h \in HourCounts, m \in MinuteCounts, sc \in SecondCounts}
    \cup {"Now", "1 day, 2 days ago", "2days ago", "1 daylight ago",
          "1 year, 2 days ago", "3 hours, 2 days ago"}

\* the blocks a text is put together from: an interface block's first lines,
\* or a whole peer block.  name, id and endpoint say what the block shows
\* (None: it shows none); has: the fields a peer block holds
TextBlocks ==
    <<[kind |-> "interface", name |-> Some("wg0"),
       lines |-> <<"interface: wg0", "  public key: pk0=", "  listening port: 51820">>],
      [kind |-> "interface", name |-> Some("wg1"),
       lines |-> <<"interface: wg1">>],
      [kind |-> "interface", name |-> None,
       lines |-> <<"interface: ">>],
      [kind |-> "peer", id |-> "AAA=", endpoint |-> "1.2.3.4:51820",
       has |-> {"peer", "endpoint", "handshake", "transfer"},
       lines |-> <<"peer: AAA=", "  endpoint: 1.2.3.4:51820",
                   "  allowed ips: 10.0.0.2/32",
                   "  latest handshake: 2 days, 3 hours ago",
                   "  transfer: 10 MiB received, 1.5 GiB sent">>],
      [kind |-> "peer", id |-> "B+/b", endpoint |-> "5.6.7.8:1",
       has |-> {"peer", "endpoint", "handshake", "transfer"},
       lines |-> <<"peer: B+/b", "  transfer: 0 B received, 4 XiB sent",
                   "  latest handshake: 5 minutes, 30 seconds ago",
                   "  endpoint: 5.6.7.8:1">>],
      [kind |-> "peer", id |-> "CCC=", endpoint |-> "",
       has |-> {"peer", "handshake", "transfer"},
       lines |-> <<"peer: CCC=", "  latest handshake: 1 day ago",
                   "  transfer: 1 B received, 1 B sent">>],
      [kind |-> "peer", id |-> "DDD=", endpoint |-> "9.9.9.9:9",
       has |-> {"peer", "endpoint", "handshake", "transfer"},
       lines |-> <<"peer: DDD=", "  endpoint: 9.9.9.9:9",
                   "  latest handshake: 1 minute ago",
                   "  transfer: 1.2.3 MiB received, 0 B sent">>]>>

MaxBlocks == 3

RECURSIVE LinesOf(_, _)
LinesOf(blocks, i) ==
    IF i > Len(blocks) THEN <<>>
    ELSE TextBlocks[blocks[i]].lines \o LinesOf(blocks, i + 1)

\* the text whose blocks are TextBlocks[blocks[1]], TextBlocks[blocks[2]], ...
TextOf(blocks) == Join("\n", LinesOf(blocks, 1))

\* the lines that may follow the first line of a peer block
FieldLines ==
    {"  endpoint: 1.2.3.4:51820",
     "  latest handshake: 2 days, 3 hours ago",
     "  transfer: 10 MiB received, 1.5 GiB sent",
     "  transfer: 1.2.3 MiB received, 0 B sent"}

MaxFields == 4

\* one interface with one peer whose block holds the lines `fields`
PeerText(fields) == Join("\n", <<"interface: wg0", "peer: AAA=">> \o fields)

\* the records format_metrics is given
Records ==
    {[interface |-> "wg0", peer |-> "AAA=", endpoint |-> "1.2.3.4:51820",
      handshake |-> "2023-12-29T21:00:00",
      rx_bytes |-> PyIntOfStr("10485760"), tx_bytes |-> PyIntOfStr("1610612736")],
     [interface |-> "wg1", peer |-> "B+/b", endpoint |-> "5.6.7.8:1",
      handshake |-> "2024-06-01T11:54:30.000123",
      rx_bytes |-> PyIntOfStr("0"), tx_bytes |-> PyIntOfStr("4")],
     [interface |-> "wg0", peer |-> "CCC=", endpoint |-> "9.9.9.9:9",
      handshake |-> "2024-01-01T00:00:00",
      rx_bytes |-> PyIntOfStr("2476979795053773"), tx_bytes |-> PyIntOfStr("0")]}

MaxRecords == 3

\* the values a caller gives override("override_current_time", value)
RefTimes == {DateTime(2024, 1, 1, 0, 0, 0, 0)}

Clock0 == DateTime(2024, 6, 1, 12, 0, 0, 123)

MaxTicks == 1

-----------------------------------------------------------------------------
(* The single caller: from idle it sets the override, lets time pass, or   *)
(* applies one function to one input and looks at the outcome              *)

SeqIdle == UNCHANGED <<child, cpc, cwg_output, cout, callers>>

\* override("override_current_time", t)
override(key, value) ==
    /\ op = "idle"
    /\ overrides' = DictSet(overrides, key, value)
    /\ UNCHANGED <<clock, op, arg, ret>>
    /\ SeqIdle

Override == \E t \in RefTimes : override(RefKey, t)

\* a second passes
Tick ==
    /\ op = "idle"
    /\ clock.sod - Clock0.sod < MaxTicks
    /\ clock' = [clock EXCEPT !.sod = @ + 1]
    /\ UNCHANGED <<overrides, op, arg, ret>>
    /\ SeqIdle

CallSplit ==
    \E split_key \in SplitKeys, lines \in SeqsUpTo(SplitLines, MaxSplitLen) :
        /\ op = "idle"
        /\ op' = "split_lines_by_key"
        /\ arg' = [split_key |-> split_key, lines |-> lines]
        /\ ret' = Return(split_lines_by_key(split_key, lines))
        /\ UNCHANGED <<overrides, clock>>
        /\ SeqIdle

CallParseToBytes ==
    \E byte_reading \in ByteReadings :
        /\ op = "idle"
        /\ op' = "parse_to_bytes"
        /\ arg' = byte_reading
        /\ ret' = parse_to_bytes(byte_reading)
        /\ UNCHANGED <<overrides, clock>>
        /\ SeqIdle

CallParseHandshake ==
    \E handshake \in Phrases :
        /\ op = "idle"
        /\ op' = "parse_handshake_time"
        /\ arg' = handshake
        /\ ret' = parse_handshake_time(handshake)
        /\ UNCHANGED <<overrides, clock>>
        /\ SeqIdle

\* parse_wg_output of a text put together from blocks of TextBlocks
CallParseText ==
    \E blocks \in SeqsUpTo(1..Len(TextBlocks), MaxBlocks) :
        /\ op = "idle"
        /\ op' = "parse_wg_output"
        /\ arg' = [blocks |-> blocks, wg_output |-> TextOf(blocks)]
        /\ ret' = parse_wg_output(TextOf(blocks))
        /\ UNCHANGED <<overrides, clock>>
        /\ SeqIdle

\* parse_wg_output of one interface with one peer, its field lines in any order
CallParsePeer ==
    \E fields \in SeqsUpTo(FieldLines, MaxFields) :
        /\ op = "idle"
        /\ op' = "parse_wg_output"
        /\ arg' = [fields |-> fields, wg_output |-> PeerText(fields)]
        /\ ret' = parse_wg_output(PeerText(fields))
        /\ UNCHANGED <<overrides, clock>>
        /\ SeqIdle

CallFormat ==
    \E metrics \in SeqsUpTo(Records, MaxRecords) :
        /\ op = "idle"
        /\ op' = "format_metrics"
        /\ arg' = metrics
        /\ ret' = Return(format_metrics(metrics))
        /\ UNCHANGED <<overrides, clock>>
        /\ SeqIdle

\* the caller is done with the outcome
Forget ==
    /\ op # "idle"
    /\ op' = "idle"
    /\ arg' = <<>>
    /\ ret' = <<>>
    /\ UNCHANGED <<overrides, clock>>
    /\ SeqIdle

\* no process was started
NoChild == [state |-> "none", code |-> 0, stdout |-> ""]

-----------------------------------------------------------------------------
Init ==
    /\ overrides = NoOverrides
    /\ clock = Clock0
    /\ op = "idle"
    /\ arg = <<>>
    /\ ret = <<>>
    /\ child = NoChild
    /\ cpc = "idle"
    /\ cwg_output = None
    /\ cout = <<>>
    /\ callers = <<>>

Next ==
    \/ Override
    \/ Tick
    \/ CallSplit
    \/ CallParseToBytes
    \/ CallParseHandshake
    \/ CallParseText
    \/ CallParsePeer
    \/ CallFormat
    \/ Forget

Spec == Init /\ [][Next]_vars

-----------------------------------------------------------------------------
(* collect_metrics: run_command starts `sudo wg show` with subprocess.run  *)
(* and waits for it for as long as it runs; nothing of the program ends    *)
(* the wait                                                                *)

FailureText == "Failed to retrieve WireGuard metrics."

\* what subprocess.run raises when the process cannot be started
SpawnErrors == {"FileNotFoundError", "PermissionError"}

ExitCodes == {0, 1}

MaxOutputBlocks == 2

\* what `wg show` may write to its standard output
CommandOutputs ==
    {"", "\n"} \cup {TextOf(blocks) : blocks \in SeqsUpTo(1..Len(TextBlocks), MaxOutputBlocks)}

CollectIdle == UNCHANGED <<overrides, clock, op, arg, ret, callers>>

\* line 126 calls run_command, line 25 subprocess.run: the process starts
CollectSpawn ==
    /\ cpc = "idle"
    /\ cpc' = "run"
    /\ child' = [NoChild EXCEPT !.state = "running"]
    /\ UNCHANGED <<cwg_output, cout>>
    /\ CollectIdle

\* line 25: the process cannot be started; the OSError is no
\* CalledProcessError, so line 28 does not catch it and neither does
\* collect_metrics
CollectSpawnFails ==
    \E e \in SpawnErrors :
        /\ cpc = "idle"
        /\ cpc' = "done"
        /\ child' = [NoChild EXCEPT !.state = "failed"]
        /\ cout' = Raise(e)
        /\ UNCHANGED cwg_output
        /\ CollectIdle

\* the process ends, having written its output
ChildExit ==
    \E code \in ExitCodes, stdout \in CommandOutputs :
        /\ child.state = "running"
        /\ child' = [state |-> "exited", code |-> code, stdout |-> stdout]
        /\ UNCHANGED <<cpc, cwg_output, cout>>
        /\ CollectIdle

\* lines 25-30: subprocess.run returns once the process has ended; with
\* check=True a non-zero exit raises CalledProcessError, caught at line 28
run_command ==
    /\ cpc = "run"
    /\ child.state = "exited"
    /\ cpc' = "ran"
    /\ cwg_output' = IF child.code # 0 THEN None ELSE Some(child.stdout)
    /\ UNCHANGED <<child, cout>>
    /\ CollectIdle

\* format_metrics of what parse_wg_output returned
format_of(r) == IF r.kind = "raise" THEN r ELSE Return(format_metrics(r.val))

\* lines 127-131
collect_metrics ==
    /\ cpc = "ran"
    /\ cpc' = "done"
    /\ cout' = IF cwg_output # None /\ cwg_output[1] # ""
               THEN format_of(parse_wg_output(cwg_output[1]))
               ELSE Return(FailureText)
    /\ UNCHANGED <<child, cwg_output>>
    /\ CollectIdle

CollectNext ==
    \/ CollectSpawn
    \/ CollectSpawnFails
    \/ ChildExit
    \/ run_command
    \/ collect_metrics

\* the step of collect_metrics, as far as cpc shows it
CollectReturns == cpc = "ran" /\ cpc' = "done"

\* the program takes the steps it can take; whether the process ends is
\* not up to the program
CollectSpec ==
    /\ Init
    /\ [][CollectNext]_vars
    /\ WF_vars(CollectSpawn \/ CollectSpawnFails)
    /\ WF_vars(run_command)
    /\ WF_cpc(CollectReturns)

-----------------------------------------------------------------------------
(* Callers that share the module: each may call override and then calls    *)
(* parse_wg_output, whose reads of `overrides` and of the clock (line 45,  *)
(* once per complete peer block) interleave with the steps of the others   *)

NumCallers == 2

\* the values the callers give override
ConcTimes == {DateTime(2024, 1, 1, 0, 0, 0, 0), DateTime(2023, 3, 1, 8, 30, 0, 0)}

\* the texts the callers parse, as blocks of TextBlocks
ConcTexts == {<<1, 4, 5>>}

MaxConcTicks == 1

\* what the callers are to do before they parse: all call override with the
\* same plan[1], or none calls it (plan = None)
CallerPlans == {None} \cup {Some(t) : t \in ConcTimes}

ConcIdle == UNCHANGED <<op, arg, ret, child, cpc, cwg_output, cout>>

ConcInit ==
    /\ overrides = NoOverrides
    /\ clock = Clock0
    /\ op = "idle"
    /\ arg = <<>>
    /\ ret = <<>>
    /\ child = NoChild
    /\ cpc = "idle"
    /\ cwg_output = None
    /\ cout = <<>>
    /\ \E plan \in CallerPlans, blocks \in [1..NumCallers -> ConcTexts] :
           callers = [c \in 1..NumCallers |->
                         [pc |-> "start", plan |-> plan, blocks |-> blocks[c],
                          todo |-> <<>>, metrics |-> <<>>,
                          began |-> Clock0, result |-> Return(<<>>)]]

\* lines 19-20
ConcOverride(c) ==
    /\ callers[c].pc = "start"
    /\ callers[c].plan # None
    /\ overrides' = DictSet(overrides, RefKey, callers[c].plan[1])
    /\ callers' = [callers EXCEPT ![c].pc = "call"]
    /\ UNCHANGED clock
    /\ ConcIdle

\* lines 66-68: parse_wg_output is called and splits the text
ConcCall(c) ==
    /\ \/ callers[c].pc = "call"
       \/ callers[c].pc = "start" /\ callers[c].plan = None
    /\ callers' = [callers EXCEPT ![c].pc = "parse", ![c].began = clock,
                                  ![c].todo = peer_blocks(TextOf(callers[c].blocks))]
    /\ UNCHANGED <<overrides, clock>>
    /\ ConcIdle

\* the caller after the outcome `one` of its next peer block
after_peer(caller, one) ==
    IF one.kind = "raise"
    THEN [caller EXCEPT !.pc = "done", !.result = one]
    ELSE [caller EXCEPT !.todo = Tail(@), !.metrics = @ \o one.val]

\* lines 75-87 for the next peer block
ConcPeer(c) ==
    /\ callers[c].pc = "parse"
    /\ callers[c].todo # <<>>
    /\ callers' = [callers EXCEPT ![c] =
           after_peer(@, peer_metrics(Head(@.todo).interface_name,
                                      Head(@.todo).peer_lines,
                                      current_time_of(overrides, clock)))]
    /\ UNCHANGED <<overrides, clock>>
    /\ ConcIdle

\* line 90
ConcReturn(c) ==
    /\ callers[c].pc = "parse"
    /\ callers[c].todo = <<>>
    /\ callers' = [callers EXCEPT ![c].pc = "done",
                                  ![c].result = Return(callers[c].metrics)]
    /\ UNCHANGED <<overrides, clock>>
    /\ ConcIdle

\* a second passes
ConcTick ==
    /\ clock.sod - Clock0.sod < MaxConcTicks
    /\ clock' = [clock EXCEPT !.sod = @ + 1]
    /\ UNCHANGED <<overrides, callers>>
    /\ ConcIdle

ConcNext ==
    \/ \E c \in 1..NumCallers : ConcOverride(c)
    \/ \E c \in 1..NumCallers : ConcCall(c)
    \/ \E c \in 1..NumCallers : ConcPeer(c)
    \/ \E c \in 1..NumCallers : ConcReturn(c)
    \/ ConcTick

ConcSpec == ConcInit /\ [][ConcNext]_vars

-----------------------------------------------------------------------------
(* split_lines_by_key                                                      *)

RECURSIVE Flatten(_)
Flatten(groups) ==
    IF groups = <<>> THEN <<>> ELSE Head(groups) \o Flatten(Tail(groups))

\* C4: split_lines_by_key returns one group per line that contains the marker,
\* in order; a group starts at its marker line and holds no other marker line;
\* the groups put together are the input from the first marker line on, so the
\* lines before it are in no group; without a marker line there is no group
C4_SplitGroups ==
    op = "split_lines_by_key" =>
        LET lines  == arg.lines
            groups == ret.val
            marks  == {i \in 1..Len(lines) : Contains(lines[i], arg.split_key)}
        IN  /\ Len(groups) = Cardinality(marks)
            /\ \A g \in 1..Len(groups) :
                   /\ groups[g] # <<>>
                   /\ Contains(groups[g][1], arg.split_key)
                   /\ \A k \in 2..Len(groups[g]) :
                          ~Contains(groups[g][k], arg.split_key)
            /\ Flatten(groups) =
                   IF marks = {} THEN <<>> ELSE SubSeq(lines, Min(marks), Len(lines))

\* two groups, the first of two lines, after a line that is in no group
C4_Witness ==
    /\ op = "split_lines_by_key"
    /\ Len(ret.val) = 2
    /\ Len(ret.val[1]) = 2
    /\ ~Contains(arg.lines[1], arg.split_key)

-----------------------------------------------------------------------------
(* parse_to_bytes                                                          *)

\* a decimal number: digits with at most one dot
IsDecimal(s) ==
    /\ s # ""
    /\ \A i \in 1..Len(s) : Ch(s, i) \in NumChars
    /\ FloatValid(s)

IsWord(s) == s # "" /\ \A i \in 1..Len(s) : Ch(s, i) \in WordChars

\* the k of 1024^k for a unit symbol, 0 for any other symbol
PowerOf(unit) ==
    CASE unit = "KiB" -> 1 [] unit = "MiB" -> 2 [] unit = "GiB" -> 3
      [] unit = "TiB" -> 4 [] unit = "PiB" -> 5 [] OTHER -> 0

\* floor(number * 1024^k), number a decimal
RoundDown(number, k) ==
    BigDivSmall(BigShiftLimbs(PyIntOfStr(DigitsOnly(number, 1)), k),
                10 ^ FracDigits(number)).q

\* C5: for "<decimal number> <unit>" parse_to_bytes returns the number times
\* 1024^k rounded down, k = 0..5 for B..PiB and multiplier 1 for any other unit
C5_RoundedDown ==
    op = "parse_to_bytes" =>
        \A sp \in 1..Len(arg) :
            LET number == SubSeq(arg, 1, sp - 1)
                unit   == SubSeq(arg, sp + 1, Len(arg))
            IN  (Ch(arg, sp) = " " /\ IsDecimal(number) /\ IsWord(unit)) =>
                    ret = Return(Some(RoundDown(number, PowerOf(unit))))

\* the readings the documentation names give the documented byte counts
C5_Documented ==
    op = "parse_to_bytes" =>
        /\ arg = "10 MiB" => ret = Return(Some(PyIntOfStr("10485760")))
        /\ arg = "0 B" => ret = Return(Some(PyIntOfStr("0")))
        /\ arg = "1.5 GiB" => ret = Return(Some(PyIntOfStr("1610612736")))
        /\ arg = "4 XiB" => ret = Return(Some(PyIntOfStr("4")))
        /\ arg \in {"", "5", "MiB 5", "5  B"} => ret = Return(None)

-----------------------------------------------------------------------------
(* parse_handshake_time                                                    *)

\* the N of the first "<N> <unit>" of the phrase, 0 when there is none
CountOf(phrase, unit) ==
    LET match == re_search(unit_pattern(unit), phrase)
    IN  IF match = None THEN <<>> ELSE PyIntOfStr(match[1])

TotalSeconds(phrase) ==
    BigAdd(BigAdd(BigMulSmall(CountOf(phrase, "day"), 86400),
                  BigMulSmall(CountOf(phrase, "hour"), 3600)),
           BigAdd(BigMulSmall(CountOf(phrase, "minute"), 60),
                  CountOf(phrase, "second")))

\* the reference time in force
Reference == current_time_of(overrides, clock)

\* C6: parse_handshake_time returns the reference time minus the sum of
\* N * seconds over the units day, hour, minute, second of the phrase; with
\* the reference 2024-01-01T00:00:00, "2 days, 3 hours ago" gives
\* 2023-12-29T21:00:00 and "5 minutes, 30 seconds ago" 2023-12-31T23:54:30
C6_ReferenceMinusSum ==
    op = "parse_handshake_time" =>
        /\ ret.kind = "return"
        /\ ret = isoformat_of(MinusSeconds(Reference, TotalSeconds(arg)))
        /\ Reference = DateTime(2024, 1, 1, 0, 0, 0, 0) =>
               /\ arg = "2 days, 3 hours ago" => ret.val = "2023-12-29T21:00:00"
               /\ arg = "5 minutes, 30 seconds ago" => ret.val = "2023-12-31T23:54:30"
               /\ arg = "Now" => ret.val = "2024-01-01T00:00:00"

\* C6 wherever parse_handshake_time returns
C6_WhenReturned ==
    (op = "parse_handshake_time" /\ ret.kind = "return") => C6_ReferenceMinusSum

-----------------------------------------------------------------------------
(* parse_wg_output                                                         *)

\* what the text of `blocks` shows: a record for every peer block that holds
\* all four fields and lies in a named interface block, in order
RECURSIVE ShownFrom(_, _, _)
ShownFrom(blocks, i, interface) ==
    IF i > Len(blocks) THEN <<>>
    ELSE LET b == TextBlocks[blocks[i]]
         IN  IF b.kind = "interface" THEN ShownFrom(blocks, i + 1, b.name)
             ELSE (IF interface # None
                      /\ b.has = {"peer", "endpoint", "handshake", "transfer"}
                   THEN <<[interface |-> interface[1], peer |-> b.id,
                           endpoint |-> b.endpoint]>>
                   ELSE <<>>)
                  \o ShownFrom(blocks, i + 1, interface)

\* the interface, peer and endpoint of each record
Shown(metrics) ==
    [i \in 1..Len(metrics) |->
        [interface |-> metrics[i].interface, peer |-> metrics[i].peer,
         endpoint |-> metrics[i].endpoint]]

\* C1: parse_wg_output returns exactly one record for each peer block that
\* holds all required fields, under the name of its interface block, in the
\* order of the text; a peer block without endpoint: adds none
C1_OneRecordPerCompleteBlock ==
    (op = "parse_wg_output" /\ "blocks" \in DOMAIN arg) =>
        /\ ret.kind = "return"
        /\ Shown(ret.val) = ShownFrom(arg.blocks, 1, None)

\* C1 wherever parse_wg_output returns
C1_WhenReturned ==
    (op = "parse_wg_output" /\ "blocks" \in DOMAIN arg /\ ret.kind = "return") =>
        Shown(ret.val) = ShownFrom(arg.blocks, 1, None)

\* C2: no exception escapes parse_wg_output or format_metrics
C2_NoExceptionEscapes ==
    op \in {"parse_wg_output", "format_metrics"} => ret.kind = "return"

-----------------------------------------------------------------------------
(* format_metrics                                                          *)

\* text.split("\n"), the empty text giving no line
RECURSIVE SplitNewlines(_)
SplitNewlines(text) ==
    LET nls == {i \in 1..Len(text) : Ch(text, i) = "\n"}
    IN  IF nls = {} THEN (IF text = "" THEN <<>> ELSE <<text>>)
        ELSE <<SubSeq(text, 1, Min(nls) - 1)>>
             \o (IF Min(nls) = Len(text) THEN <<"">>
                 ELSE SplitNewlines(SubSeq(text, Min(nls) + 1, Len(text))))

EndsWith(s, lit) == StartsAt(s, Len(s) - Len(lit) + 1, lit)

\* C7: format_metrics gives 3 * N non-empty lines joined by newlines, for the
\* i-th record its wg_peer_info line with value 1, its wg_peer_rx_bytes line
\* and its wg_peer_tx_bytes line, in this order; no record gives ""
C7_ThreeLinesPerRecord ==
    op = "format_metrics" =>
        LET lines == SplitNewlines(ret.val)
        IN  /\ ret.kind = "return"
            /\ arg = <<>> => ret.val = ""
            /\ Len(lines) = 3 * Len(arg)
            /\ \A k \in 1..Len(lines) : lines[k] # ""
            /\ \A i \in 1..Len(arg) :
                   LET labels == "{interface=\"" \o arg[i].interface
                                 \o "\",peer=\"" \o arg[i].peer \o "\"}"
                   IN  /\ StartsAt(lines[3 * i - 2], 1,
                                   "wg_peer_info{interface=\"" \o arg[i].interface
                                   \o "\",peer=\"" \o arg[i].peer \o "\",endpoint=\""
                                   \o arg[i].endpoint \o "\",last_handshake=\""
                                   \o arg[i].handshake \o "\"}")
                       /\ EndsWith(lines[3 * i - 2], "} 1")
                       /\ lines[3 * i - 1] = "wg_peer_rx_bytes" \o labels \o " "
                                              \o PyStr(arg[i].rx_bytes)
                       /\ lines[3 * i] = "wg_peer_tx_bytes" \o labels \o " "
                                          \o PyStr(arg[i].tx_bytes)

\* three records, the first two different, formatted
C7_Witness ==
    /\ op = "format_metrics"
    /\ Len(arg) = 3
    /\ arg[1] # arg[2]
    /\ Len(SplitNewlines(ret.val)) = 9

-----------------------------------------------------------------------------
(* The order of the fields of a peer block                                 *)

Perms(n) == {p \in [1..n -> 1..n] : \A i, j \in 1..n : p[i] = p[j] => i = j}

\* the lines of `fields` that the pattern matches
Matching(pattern, fields) ==
    {j \in 1..Len(fields) : re_search(pattern, fields[j]) # None}

\* what a field line says
EndpointOf(line) ==
    CASE line = "  endpoint: 1.2.3.4:51820" -> "1.2.3.4:51820"
      [] OTHER -> ""

PhraseOf(line) ==
    CASE line = "  latest handshake: 2 days, 3 hours ago" -> "2 days, 3 hours ago"
      [] OTHER -> ""

\* the bytes received and sent, for the line that holds two decimal numbers
QuantitiesOf(line) ==
    CASE line = "  transfer: 10 MiB received, 1.5 GiB sent"
             -> <<PyIntOfStr("10485760"), PyIntOfStr("1610612736")>>
      [] OTHER -> <<>>

\* C10: when endpoint, latest handshake and transfer each occur on at most one
\* line of a peer block, every order of the lines after the first gives the
\* same outcome; when a field occurs on several lines, the record holds the
\* value of the first of them
C10_FieldOrder ==
    (op = "parse_wg_output" /\ "fields" \in DOMAIN arg) =>
        LET fields == arg.fields
            e == Matching(endpoint_pattern, fields)
            h == Matching(handshake_pattern, fields)
            t == Matching(transfer_pattern, fields)
        IN  /\ (Cardinality(e) <= 1 /\ Cardinality(h) <= 1 /\ Cardinality(t) <= 1) =>
                   \A p \in Perms(Len(fields)) :
                       parse_wg_output(PeerText([i \in 1..Len(fields) |-> fields[p[i]]]))
                           = ret
            /\ (ret.kind = "return" /\ ret.val # <<>>) =>
                   /\ Len(ret.val) = 1
                   /\ ret.val[1].endpoint = EndpointOf(fields[Min(e)])
                   /\ ret.val[1].handshake
                          = handshake_time_at(PhraseOf(fields[Min(h)]), Reference).val
                   /\ <<ret.val[1].rx_bytes, ret.val[1].tx_bytes>>
                          = QuantitiesOf(fields[Min(t)])

\* a record from a block whose transfer line comes first and which holds a
\* second, different transfer line
C10_Witness ==
    /\ op = "parse_wg_output"
    /\ "fields" \in DOMAIN arg
    /\ Len(arg.fields) = 4
    /\ 1 \in Matching(transfer_pattern, arg.fields)
    /\ \E j \in Matching(transfer_pattern, arg.fields) : arg.fields[j] # arg.fields[1]
    /\ ret.kind = "return"
    /\ Len(ret.val) = 1

-----------------------------------------------------------------------------
(* collect_metrics                                                         *)

\* C3: collect_metrics returns the failure string whenever the command could
\* not be started, exited non-zero or wrote nothing, never passing the
\* failure on to its caller; otherwise it returns the exposition text of the
\* parsed output
C3_FailureString ==
    cpc = "done" =>
        IF child.state = "failed" \/ child.code # 0 \/ child.stdout = ""
        THEN cout = Return(FailureText)
        ELSE /\ cout.kind = "return"
             /\ cout.val = format_metrics(metrics_at(child.stdout, Clock0).val)

\* C3 for the commands that did start
C3_WhenStarted ==
    (cpc = "done" /\ child.state = "exited" /\ cout.kind = "return") => C3_FailureString

\* C8: the wait for the status command is bounded: once the command runs,
\* collect_metrics eventually returns, the command ending or not
C8_EventuallyReturns == (cpc = "run") ~> (cpc = "done")

-----------------------------------------------------------------------------
(* The shared reference time                                               *)

AllSet(t) == \A c \in 1..NumCallers : callers[c].plan = Some(t)

NoneSets == \A c \in 1..NumCallers : callers[c].plan = None

\* C9: parsing never writes the override, and when all callers set the same
\* t, or none sets it, every caller gets what parse_wg_output gives alone
\* with that reference time (the clock's, when it did not move during the
\* call), so equal texts give equal results
C9_SharedReference ==
    /\ DOMAIN overrides \subseteq {RefKey}
    /\ RefKey \in DOMAIN overrides =>
           \E c \in 1..NumCallers : callers[c].plan = Some(overrides[RefKey])
    /\ NoneSets => overrides = NoOverrides
    /\ \A c \in 1..NumCallers :
           callers[c].pc = "done" =>
               /\ \A t \in ConcTimes :
                      AllSet(t) =>
                          callers[c].result = metrics_at(TextOf(callers[c].blocks), t)
               /\ (NoneSets /\ callers[c].began = clock) =>
                      callers[c].result = metrics_at(TextOf(callers[c].blocks), clock)
    /\ \A c, d \in 1..NumCallers :
           (/\ callers[c].pc = "done" /\ callers[d].pc = "done"
            /\ callers[c].blocks = callers[d].blocks
            /\ \/ \E t \in ConcTimes : AllSet(t)
               \/ NoneSets /\ callers[c].began = clock /\ callers[d].began = clock)
           => callers[c].result = callers[d].result

\* all callers set the same t and are done, each with the two records of
\* its text
C9_Witness ==
    /\ \E t \in ConcTimes : AllSet(t) /\ overrides = DictSet(NoOverrides, RefKey, t)
    /\ \A c \in 1..NumCallers :
           /\ callers[c].pc = "done"
           /\ callers[c].result.kind = "return"
           /\ Len(callers[c].result.val) = 2

====
